---------------------------- MODULE Spec2Model ----------------------------
(***************************************************************************)
(* Model of src/server.py: the POST /autofill handler (autofill) and the   *)
(* DOM extractor (extract_structured_dom).                                 *)
(*                                                                         *)
(* One request is handled at a time.  A state is the handler's position    *)
(* (pc names the next call the handler makes into the browser driver or    *)
(* the language model) together with the handler's locals.  Every action   *)
(* is one such call, with its outcome drawn from the outcomes the call can *)
(* have, followed by the handler's own code up to the next call.           *)
(*                                                                         *)
(* The page is live: scripts run between two driver calls, so the outcome  *)
(* of each call is drawn independently of the calls before it.             *)
(***************************************************************************)
EXTENDS Naturals, Sequences, FiniteSets

\* Bounds of the model.
MaxSubFrames == 1
MaxEntries == 2
MaxTextLen == 5
MaxControls == 2
MaxBrowsers == 2

VARIABLES
  pc,              \* the handler's position
  url,             \* req.get("url")
  details,         \* req.get("details", "")
  response,        \* what the handler returned ("none" while it runs)
  browsers,        \* browser processes launched and not closed
  passed,          \* requests that passed the url/details validation
  nav,             \* outcome of page.goto
  html,            \* the controls of the page content, in document order
  title,           \* page.title()
  controls,        \* extract_structured_dom(html)
  ai_text,         \* the model's text
  mapping,         \* ai_json.get("mapping", {}), as its items in order
  idx,             \* number of mapping entries the loop has taken
  el,              \* where the current entry's element was found
  fi,              \* position of the current loop over page.frames
  mapped_results,  \* mapped_results
  errors,          \* errors
  matched,         \* did a query for the current entry return an element
  lookups,         \* query calls made for the current entry
  tried            \* element calls made for the current entry, with outcome

vars == <<pc, url, details, response, browsers, passed, nav, html, title,
          controls, ai_text, mapping, idx, el, fi, mapped_results, errors,
          matched, lookups, tried>>

----------------------------------------------------------------------------
\* page.frames: the main frame first, then the sub-frames.
NumFrames == 1 + MaxSubFrames
Frames == 1 .. NumFrames

QueryOutcomes == {"match", "none", "raise"}
CallOutcomes == {"ok", "raise"}

AllSeqs(S, n) == UNION {[1 .. k -> S] : k \in 0 .. n}

----------------------------------------------------------------------------
\* Selectors are character sequences.
IdA == <<"i", "d", ":", "a">>
NameB == <<"n", "a", "m", "e", ":", "b">>
CssC == <<".", "c">>
Selectors == {IdA, NameB, CssC}

StartsWith(s, p) == Len(s) >= Len(p) /\ SubSeq(s, 1, Len(p)) = p

\* s.split(":", 1)[1] for an s that contains a colon.
AfterColon(s) ==
  LET i == CHOOSE j \in 1 .. Len(s) :
             s[j] = ":" /\ \A k \in 1 .. j - 1 : s[k] # ":"
  IN SubSeq(s, i + 1, Len(s))

Resolve(selector) ==
  IF StartsWith(selector, <<"i", "d", ":">>)
    THEN <<"#">> \o AfterColon(selector)
  ELSE IF StartsWith(selector, <<"n", "a", "m", "e", ":">>)
    THEN <<"[", "name", "=", "\"">> \o AfterColon(selector) \o <<"\"", "]">>
  ELSE selector

\* A mapping object: its items in insertion order, keys distinct.
Values == {"v"}
Mappings ==
  {m \in AllSeqs([selector : Selectors, value : Values], MaxEntries) :
     \A i, j \in 1 .. Len(m) : i # j => m[i].selector # m[j].selector}


----------------------------------------------------------------------------
\* extract_structured_dom.
\* A matched control of the markup: its tag, its id attribute ("" when it
\* has none), the text of label[for=id], of the enclosing label, of the
\* previous sibling ("" when there is none or it has no text), and whether
\* reading it raises inside the per-control try block.  The other attributes
\* (type, name, placeholder, aria-label, outer_html) are copied like id.
Tags == {"input"}
RawControls ==
  {c \in [tag : Tags, id : {"", "x"}, forLabel : {"", "F"},
          parentLabel : {"", "P"}, prev : {"", "S"}, bad : BOOLEAN] :
     c.forLabel # "" => c.id # ""}
Pages == AllSeqs(RawControls, MaxControls)

LabelText(c) ==
  LET byFor == IF c.id # "" THEN c.forLabel ELSE ""
      byParent == IF byFor = "" THEN c.parentLabel ELSE byFor
  IN IF byParent = "" THEN c.prev ELSE byParent

ControlInfo(c) == [tag |-> c.tag, id |-> c.id, label |-> LabelText(c)]

\* One pass of the loop body for control c with the list built so far.
ExtractAbortsOnBad(acc, c) == IF c.bad THEN <<>> ELSE Append(acc, ControlInfo(c))
ExtractStep(acc, c) == IF c.bad THEN acc ELSE Append(acc, ControlInfo(c))

RECURSIVE ExtractLoop(_, _, _)
ExtractLoop(page, i, acc) ==
  IF i > Len(page) THEN acc
  ELSE ExtractLoop(page, i + 1, ExtractStep(acc, page[i]))

extract_structured_dom(page) == ExtractLoop(page, 1, <<>>)

----------------------------------------------------------------------------
\* The model's text, as tokens: "{" and "}", "k" for the member key
\* "mapping" with its colon, "n" for a scalar JSON value, "p" for prose.
\* A brace pair with nothing between stands for an object whose members do
\* not include "mapping".
Tokens == {"{", "}", "k", "n", "p"}
Texts == AllSeqs(Tokens, MaxTextLen)

ParseFail == [ok |-> FALSE, next |-> 0, kind |-> "none", mapping |-> "absent"]

\* A JSON value starting at s[i]: where it ends, what it is and, for an
\* object, what its "mapping" member is.
RECURSIVE ParseValue(_, _)
ParseValue(s, i) ==
  IF i > Len(s) THEN ParseFail
  ELSE IF s[i] = "n"
    THEN [ok |-> TRUE, next |-> i + 1, kind |-> "scalar", mapping |-> "absent"]
  ELSE IF s[i] = "{" /\ i + 1 <= Len(s) /\ s[i + 1] = "}"
    THEN [ok |-> TRUE, next |-> i + 2, kind |-> "object", mapping |-> "absent"]
  ELSE IF s[i] = "{" /\ i + 1 <= Len(s) /\ s[i + 1] = "k"
    THEN LET v == ParseValue(s, i + 2)
         IN IF v.ok /\ v.next <= Len(s) /\ s[v.next] = "}"
              THEN [ok |-> TRUE, next |-> v.next + 1, kind |-> "object",
                    mapping |-> v.kind]
              ELSE ParseFail
  ELSE ParseFail

\* json.loads: the whole text must be one value.
json_loads(s) ==
  LET v == ParseValue(s, 1)
  IN IF v.ok /\ v.next = Len(s) + 1 THEN v ELSE ParseFail

\* re.search(r"(\{.*\})", text, re.S): from the first "{" to the last "}".
OpenAt(s) == {i \in 1 .. Len(s) : s[i] = "{"}
CloseAt(s) == {i \in 1 .. Len(s) : s[i] = "}"}
Min(S) == CHOOSE x \in S : \A y \in S : x <= y
Max(S) == CHOOSE x \in S : \A y \in S : x >= y

re_search_lazy(s) ==
  IF OpenAt(s) # {} /\ \E j \in CloseAt(s) : j > Min(OpenAt(s))
    THEN [found |-> TRUE,
          group |-> SubSeq(s, Min(OpenAt(s)),
                           Min({j \in CloseAt(s) : j > Min(OpenAt(s))}))]
    ELSE [found |-> FALSE, group |-> <<>>]
re_search(s) ==
  IF OpenAt(s) # {} /\ CloseAt(s) # {} /\ Max(CloseAt(s)) > Min(OpenAt(s))
    THEN [found |-> TRUE, group |-> SubSeq(s, Min(OpenAt(s)), Max(CloseAt(s)))]
    ELSE [found |-> FALSE, group |-> <<>>]

\* Lines 168-179: ai_json, or which of the two parse failures is returned.
ParseLLM(text) ==
  LET direct == json_loads(text)
      m == re_search(text)
      inner == json_loads(m.group)
  IN IF direct.ok THEN [result |-> "json", value |-> direct]
     ELSE IF ~m.found THEN [result |-> "no_json", value |-> ParseFail]
     ELSE IF inner.ok THEN [result |-> "json", value |-> inner]
     ELSE [result |-> "bad_json", value |-> ParseFail]

----------------------------------------------------------------------------
\* Responses: the status code, the "error" or "status" text of the body and
\* the model text the body echoes ("raw" or "llm_raw").
NoResponse == [code |-> 0, text |-> "", raw |-> <<>>]
Resp(code, text, raw) == [code |-> code, text |-> text, raw |-> raw]

\* An exception that leaves autofill: the framework answers 500 itself.
Unhandled == Resp(500, "Internal Server Error", <<>>)

\* ai_text before line 162 assigns it.
NoText == <<"unassigned">>

Init ==
  /\ pc = "idle"
  /\ url = ""
  /\ details = ""
  /\ response = NoResponse
  /\ browsers = 0
  /\ passed = 0
  /\ nav = "none"
  /\ html = <<>>
  /\ title = ""
  /\ controls = <<>>
  /\ ai_text = NoText
  /\ mapping = <<>>
  /\ idx = 0
  /\ el = "none"
  /\ fi = 0
  /\ mapped_results = <<>>
  /\ errors = <<>>
  /\ matched = FALSE
  /\ lookups = 0
  /\ tried = <<>>

\* A new call of autofill starts with fresh locals.
FreshLocals ==
  /\ nav' = "none"
  /\ html' = <<>>
  /\ title' = ""
  /\ controls' = <<>>
  /\ ai_text' = NoText
  /\ mapping' = <<>>
  /\ idx' = 0
  /\ el' = "none"
  /\ fi' = 0
  /\ mapped_results' = <<>>
  /\ errors' = <<>>
  /\ matched' = FALSE
  /\ lookups' = 0
  /\ tried' = <<>>

applyVars == <<idx, el, fi, mapped_results, errors, matched, lookups, tried>>
pageVars == <<html, title, controls>>

\* return jsonify(...), code
Return(r) == response' = r /\ pc' = "done"

\* Lines 111-115: url or details missing or empty.
RejectRequest(u, d) ==
  /\ pc \in {"idle", "done"}
  /\ u = "" \/ d = ""
  /\ url' = u
  /\ details' = d
  /\ FreshLocals
  /\ Return(Resp(400, "url and details are mandatory", <<>>))
  /\ UNCHANGED <<browsers, passed>>

\* Lines 111-121: validation passes; playwright, browser, context and page
\* are created.
AcceptRequest(u, d) ==
  /\ pc \in {"idle", "done"}
  /\ u # "" /\ d # ""
  /\ passed < MaxBrowsers
  /\ url' = u
  /\ details' = d
  /\ FreshLocals
  /\ passed' = passed + 1
  /\ browsers' = browsers + 1
  /\ response' = NoResponse
  /\ pc' = "goto"

\* What the handler does with the browser when navigation fails.
NavFailureClosesBrowser == browsers' = browsers - 1
NavFailureBrowser == browsers' = browsers

\* Where the handler goes after page.goto timed out.
AfterTimeoutFails == Return(Resp(500, "Failed to navigate to URL", <<>>))
AfterTimeout == pc' = "scroll" /\ response' = response

\* Lines 123-130: page.goto.
Goto(o) ==
  /\ pc = "goto"
  /\ nav' = o
  /\ CASE o = "ok" -> pc' = "scroll" /\ response' = response /\ browsers' = browsers
       [] o = "timeout" -> AfterTimeout /\ browsers' = browsers
       [] o = "error" -> /\ Return(Resp(500, "Failed to navigate to URL", <<>>))
                         /\ NavFailureBrowser
  /\ UNCHANGED <<url, details, passed, ai_text, mapping>>
  /\ UNCHANGED pageVars
  /\ UNCHANGED applyVars

\* Lines 133-139: the scroll that triggers lazy loads; its failure is ignored.
Scroll ==
  /\ pc = "scroll"
  /\ pc' = "content"
  /\ UNCHANGED <<url, details, response, browsers, passed, nav, ai_text, mapping>>
  /\ UNCHANGED pageVars
  /\ UNCHANGED applyVars

\* Lines 141-144: page.content() and page.title() succeed; the controls are
\* extracted.
Content(page) ==
  /\ pc = "content"
  /\ html' = page
  /\ title' = "t"
  /\ controls' = extract_structured_dom(page)
  /\ pc' = "prompt"
  /\ UNCHANGED <<url, details, response, browsers, passed, nav, ai_text, mapping>>
  /\ UNCHANGED applyVars

\* Lines 145-152: the controls are serialised into the prompt.  html and
\* controls are not read again.
Prompt ==
  /\ pc = "prompt"
  /\ html' = <<>>
  /\ controls' = <<>>
  /\ pc' = "llm"
  /\ UNCHANGED <<url, details, response, browsers, passed, nav, title, ai_text, mapping>>
  /\ UNCHANGED applyVars

\* Lines 141-142: page.content() or page.title() raises, outside any try.
ContentRaises ==
  /\ pc = "content"
  /\ Return(Unhandled)
  /\ UNCHANGED <<url, details, browsers, passed, nav, ai_text, mapping>>
  /\ UNCHANGED pageVars
  /\ UNCHANGED applyVars

\* Lines 155-165: the model call raises.
LLMRaises ==
  /\ pc = "llm"
  /\ Return(Resp(500, "LLM request failed", <<>>))
  /\ UNCHANGED <<url, details, browsers, passed, nav, ai_text, mapping>>
  /\ UNCHANGED pageVars
  /\ UNCHANGED applyVars

\* The contents an object "mapping" member of the text can have.
MappingsOf(text) ==
  LET p == ParseLLM(text)
  IN IF p.result = "json" /\ p.value.kind = "object" /\ p.value.mapping = "object"
       THEN Mappings
       ELSE {<<>>}

\* Lines 155-188: the model answers with text; the text is parsed and the
\* mapping read.  m is the content of the "mapping" object when the text
\* holds one.
LLMAnswers(text, m) ==
  /\ pc = "llm"
  /\ ai_text' = text
  /\ LET p == ParseLLM(text)
     IN CASE p.result = "no_json" ->
               /\ Return(Resp(500, "LLM did not return JSON", text))
               /\ mapping' = mapping
          [] p.result = "bad_json" ->
               /\ Return(Resp(500, "Could not parse LLM JSON output", text))
               /\ mapping' = mapping
          [] p.result = "json" /\ p.value.kind = "scalar" ->
               \* ai_json.get raises AttributeError (line 181)
               /\ Return(Unhandled)
               /\ mapping' = mapping
          [] p.result = "json" /\ p.value.kind = "object"
               /\ p.value.mapping = "scalar" ->
               \* mapping.items() raises AttributeError (line 188)
               /\ Return(Unhandled)
               /\ mapping' = mapping
          [] p.result = "json" /\ p.value.kind = "object"
               /\ p.value.mapping \in {"absent", "object"} ->
               \* "absent": ai_json.get("mapping", {}) is {} and m is <<>>
               /\ mapping' = m
               /\ pc' = "loop" /\ response' = response
  /\ UNCHANGED <<url, details, browsers, passed, nav>>
  /\ UNCHANGED pageVars
  /\ UNCHANGED applyVars

----------------------------------------------------------------------------
\* The apply loop, lines 188-242.  idx is the entry being applied.
Entry == mapping[idx]
keepRequest == <<url, details, response, browsers, passed, nav, ai_text, mapping>>

Tried(op, f, o) == Append(tried, [op |-> op, frame |-> f, outcome |-> o])

\* Line 238.
RecordMapped ==
  /\ mapped_results' = Append(mapped_results,
                              [selector |-> Entry.selector,
                               applied_selector |-> Resolve(Entry.selector),
                               value |-> Entry.value])
  /\ errors' = errors
  /\ pc' = "loop"

\* Line 240.
NotFoundDropped ==
  /\ errors' = errors
  /\ mapped_results' = mapped_results
  /\ pc' = "loop"
RecordNotFound ==
  /\ errors' = Append(errors, [selector |-> Entry.selector,
                               error |-> "Element not found"])
  /\ mapped_results' = mapped_results
  /\ pc' = "loop"

\* Lines 206-212, a frame that gave no element or raised: the next frame,
\* or the end of the loop with el = None.
NotFoundAfterFirstFrame == fi' = fi /\ RecordNotFound
NextFrameOrNotFound ==
  IF fi < NumFrames
    THEN fi' = fi + 1 /\ pc' = "frame_query"
         /\ UNCHANGED <<mapped_results, errors>>
    ELSE fi' = fi /\ RecordNotFound

\* Lines 188-204: the next entry is taken, its selector normalised and
\* queried on the page.
PageQuery(o) ==
  /\ pc = "loop"
  /\ idx < Len(mapping)
  /\ idx' = idx + 1
  /\ tried' = <<>>
  /\ lookups' = 1
  /\ matched' = (o = "match")
  /\ IF o = "match"
       THEN el' = "page" /\ fi' = 0 /\ pc' = "el_scroll"
       ELSE el' = "none" /\ fi' = 1 /\ pc' = "frame_query"
  /\ UNCHANGED <<mapped_results, errors>>
  /\ UNCHANGED keepRequest
  /\ UNCHANGED pageVars

\* Line 208: the test query of frame fi.
FrameQuery(o) ==
  /\ pc = "frame_query"
  /\ lookups' = lookups + 1
  /\ matched' = (matched \/ o = "match")
  /\ IF o = "match"
       THEN pc' = "frame_query2" /\ fi' = fi
            /\ UNCHANGED <<mapped_results, errors>>
       ELSE NextFrameOrNotFound
  /\ UNCHANGED <<idx, el, tried>>
  /\ UNCHANGED keepRequest
  /\ UNCHANGED pageVars

\* Line 209: the second query of frame fi, whose result becomes el.  The
\* loop breaks whatever it returns; when it raises the loop continues.
FrameQuery2(o) ==
  /\ pc = "frame_query2"
  /\ lookups' = lookups + 1
  /\ CASE o = "match" -> /\ el' = fi /\ fi' = fi /\ pc' = "el_scroll"
                         /\ UNCHANGED <<mapped_results, errors>>
       [] o = "none" -> el' = el /\ fi' = fi /\ RecordNotFound
       [] o = "raise" -> el' = el /\ NextFrameOrNotFound
  /\ UNCHANGED <<idx, matched, tried>>
  /\ UNCHANGED keepRequest
  /\ UNCHANGED pageVars

\* Lines 215-218: el.scroll_into_view_if_needed().
ElScroll(o) ==
  /\ pc = "el_scroll"
  /\ tried' = Tried("scroll", 0, o)
  /\ pc' = "el_fill"
  /\ UNCHANGED <<idx, el, fi, mapped_results, errors, matched, lookups>>
  /\ UNCHANGED keepRequest
  /\ UNCHANGED pageVars

\* Lines 219-223: el.fill("").
ElFill(o) ==
  /\ pc = "el_fill"
  /\ tried' = Tried("clear", 0, o)
  /\ pc' = "el_type"
  /\ UNCHANGED <<idx, el, fi, mapped_results, errors, matched, lookups>>
  /\ UNCHANGED keepRequest
  /\ UNCHANGED pageVars

\* After el.type returned without raising: the entry is recorded (line 238).
TypedGoesOn == pc' = "page_eval" /\ UNCHANGED <<mapped_results, errors>>
Typed == RecordMapped

\* Lines 224-226: el.type(str(value), delay=10).
ElType(o) ==
  /\ pc = "el_type"
  /\ tried' = Tried("type", 0, o)
  /\ IF o = "ok"
       THEN Typed
       ELSE pc' = "page_eval" /\ UNCHANGED <<mapped_results, errors>>
  /\ UNCHANGED <<idx, el, fi, matched, lookups>>
  /\ UNCHANGED keepRequest
  /\ UNCHANGED pageVars

\* Lines 228-230: page.eval_on_selector sets el.value.
PageEval(o) ==
  /\ pc = "page_eval"
  /\ tried' = Tried("page_eval", 0, o)
  /\ IF o = "ok"
       THEN RecordMapped /\ fi' = fi
       ELSE pc' = "frame_eval" /\ fi' = 1
            /\ UNCHANGED <<mapped_results, errors>>
  /\ UNCHANGED <<idx, el, matched, lookups>>
  /\ UNCHANGED keepRequest
  /\ UNCHANGED pageVars

\* Lines 232-238: frame.eval_on_selector in frame fi; break on success,
\* continue when it raises; the entry is recorded when the loop ends.
FrameEval(o) ==
  /\ pc = "frame_eval"
  /\ tried' = Tried("frame_eval", fi, o)
  /\ CASE o = "ok" -> RecordMapped /\ fi' = fi
       [] o = "raise" /\ fi < NumFrames ->
            /\ fi' = fi + 1 /\ pc' = "frame_eval"
            /\ UNCHANGED <<mapped_results, errors>>
       [] o = "raise" /\ fi = NumFrames ->
            RecordMapped /\ fi' = fi
  /\ UNCHANGED <<idx, el, matched, lookups>>
  /\ UNCHANGED keepRequest
  /\ UNCHANGED pageVars

\* Lines 249-260: the mapping is exhausted; the 200 response.
Respond ==
  /\ pc = "loop"
  /\ idx = Len(mapping)
  /\ Return(Resp(200, "filled", ai_text))
  /\ UNCHANGED <<url, details, browsers, passed, nav, ai_text, mapping>>
  /\ UNCHANGED pageVars
  /\ UNCHANGED applyVars

Next ==
  \/ \E u, d \in {"", "x"} : RejectRequest(u, d)
  \/ \E u, d \in {"", "x"} : AcceptRequest(u, d)
  \/ \E o \in {"ok", "timeout", "error"} : Goto(o)
  \/ Scroll
  \/ pc = "content" /\ \E page \in Pages : Content(page)
  \/ ContentRaises
  \/ Prompt
  \/ LLMRaises
  \/ pc = "llm" /\ \E text \in Texts : \E m \in MappingsOf(text) : LLMAnswers(text, m)
  \/ \E o \in QueryOutcomes : PageQuery(o)
  \/ \E o \in QueryOutcomes : FrameQuery(o)
  \/ \E o \in QueryOutcomes : FrameQuery2(o)
  \/ \E o \in CallOutcomes : ElScroll(o)
  \/ \E o \in CallOutcomes : ElFill(o)
  \/ \E o \in CallOutcomes : ElType(o)
  \/ \E o \in CallOutcomes : PageEval(o)
  \/ \E o \in CallOutcomes : FrameEval(o)
  \/ Respond

Spec == Init /\ [][Next]_vars

----------------------------------------------------------------------------
\* Properties.

WriteOps == {"type", "page_eval", "frame_eval"}

\* A write strategy of the current entry returned without raising.
Written == \E i \in DOMAIN tried : tried[i].op \in WriteOps /\ tried[i].outcome = "ok"

\* The loop is between two entries, or finished, and has taken an entry.
EntryRecorded == pc \in {"loop", "done"} /\ idx > 0

InMapped(sel) == {i \in DOMAIN mapped_results : mapped_results[i].selector = sel}
InErrors(sel) == {i \in DOMAIN errors : errors[i].selector = sel}
OutcomesOf(sel) == Cardinality(InMapped(sel)) + Cardinality(InErrors(sel))

\* C1: the 200 response holds exactly one outcome for each of the K mapping
\* entries, in mapped_fields or in errors, and K outcomes in all.
C1_ExactlyKOutcomes ==
  response.code = 200 =>
    /\ Len(mapped_results) + Len(errors) = Len(mapping)
    /\ \A j \in DOMAIN mapping : OutcomesOf(mapping[j].selector) = 1

C1_Witness ==
  /\ response.code = 200
  /\ Len(mapping) >= 2
  /\ mapped_results # <<>>
  /\ errors # <<>>

\* C2: an entry is recorded in mapped_fields only if a write strategy
\* (typing, the page-level or a frame-level assignment) wrote its value.
C2_MappedOnlyIfWritten ==
  (EntryRecorded /\ InMapped(Entry.selector) # {}) => Written

\* C3: an entry none of whose queries returned an element gets exactly one
\* failure, "Element not found"; nothing is written for it, the page and
\* each frame are queried once, and the loop goes on to the later entries:
\* once it has started, the handler ends only with every entry taken.
C3_NotFoundRecordedOnce ==
  /\ (EntryRecorded /\ ~matched) =>
       /\ errors # <<>>
       /\ errors[Len(errors)] =
            [selector |-> Entry.selector, error |-> "Element not found"]
       /\ OutcomesOf(Entry.selector) = 1
       /\ tried = <<>>
       /\ lookups = 1 + NumFrames
  /\ (pc = "done" /\ idx > 0) => (response.code = 200 /\ idx = Len(mapping))

C3_Witness ==
  /\ response.code = 200
  /\ Len(mapping) >= 2
  /\ Len(errors) >= 1
  /\ InErrors(mapping[1].selector) # {}
  /\ InMapped(mapping[2].selector) # {}

\* C4: an entry is reported not found only if neither the page nor any
\* frame returned an element for its selector.
C4_NotFoundOnlyIfNoMatch ==
  (EntryRecorded /\ InErrors(Entry.selector) # {}) => ~matched

\* C5: a navigation timeout alone never gives a failure response, the
\* handler goes on to extraction, the model call and the apply loop; any
\* other navigation exception ends the request with 500 "Failed to navigate
\* to URL" before extraction, the model call and any write.
C5_TimeoutIsSoft ==
  /\ nav = "timeout" =>
       /\ pc # "goto"
       /\ response.text # "Failed to navigate to URL"
       /\ pc = "done" => response.code \in {200, 500}
  /\ nav = "error" =>
       /\ pc = "done"
       /\ response = Resp(500, "Failed to navigate to URL", <<>>)
       /\ html = <<>> /\ controls = <<>> /\ title = ""
       /\ ai_text = NoText
       /\ idx = 0 /\ tried = <<>> /\ lookups = 0
       /\ mapped_results = <<>> /\ errors = <<>>
  /\ response.text = "Failed to navigate to URL" => nav = "error"

C5_Witness ==
  /\ nav = "timeout"
  /\ response.code = 200
  /\ mapped_results # <<>>
  /\ Written

\* C6: for a model text that is not valid JSON, the response is 500 "LLM
\* did not return JSON" when the text holds no {...} block and 500 "Could
\* not parse LLM JSON output" when its block, from the first "{" to the
\* last "}", does not parse; both echo the text, and the apply loop is
\* never entered.
HasBlock(s) == \E i, j \in DOMAIN s : i < j /\ s[i] = "{" /\ s[j] = "}"
Block(s) ==
  LET i == CHOOSE a \in DOMAIN s :
             s[a] = "{" /\ \A b \in DOMAIN s : s[b] = "{" => a <= b
      j == CHOOSE a \in DOMAIN s :
             s[a] = "}" /\ \A b \in DOMAIN s : s[b] = "}" => b <= a
  IN SubSeq(s, i, j)

C7_BrowsersNeverClosed ==
  /\ [](browsers = passed)
  /\ [][/\ browsers' >= browsers
        /\ browsers' > browsers => response'.code # 400
        /\ response'.code = 400 => browsers' = browsers]_vars

C7_Witness ==
  /\ browsers = 2
  /\ response.text = "Failed to navigate to URL"

\* C8: the extracted list holds one descriptor for each control that did
\* not fail, in document order, and none for a control that failed.
GoodControls == {i \in DOMAIN html : ~html[i].bad}
NthGood(k) ==
  CHOOSE i \in GoodControls : Cardinality({j \in GoodControls : j <= i}) = k

C8_ExtractionSkipsBadControls ==
  pc = "prompt" =>
    /\ Len(controls) = Cardinality(GoodControls)
    /\ \A k \in DOMAIN controls :
         /\ controls[k].tag = html[NthGood(k)].tag
         /\ controls[k].id = html[NthGood(k)].id
         /\ controls[k].label \in {html[NthGood(k)].forLabel,
                                   html[NthGood(k)].parentLabel,
                                   html[NthGood(k)].prev}

C8_Witness ==
  /\ pc = "prompt"
  /\ Len(html) = 2
  /\ html[1].bad /\ ~html[2].bad
  /\ Len(controls) = 1
  /\ controls[1].label = "P"

\* C9: for a found element the calls are, in order, scroll, clear, type;
\* then the page-level assignment only if typing raised; then the
\* frame-level assignments, in page.frames order, only if the page-level
\* assignment raised; and after a strategy succeeds no other is attempted.
C9_FallbackOrder ==
  /\ \A i \in DOMAIN tried :
       /\ i = 1 <=> tried[i].op = "scroll"
       /\ i = 2 <=> tried[i].op = "clear"
       /\ i = 3 <=> tried[i].op = "type"
       /\ i = 4 <=> tried[i].op = "page_eval"
       /\ i >= 5 <=> tried[i].op = "frame_eval"
       /\ tried[i].op = "page_eval" => tried[i - 1].outcome = "raise"
       /\ tried[i].op = "frame_eval" =>
            /\ tried[i - 1].outcome = "raise"
            /\ tried[i].frame = i - 4
       /\ (tried[i].op \in WriteOps /\ tried[i].outcome = "ok") => i = Len(tried)
  /\ Written => pc \in {"loop", "done"}
  /\ pc = "el_fill" => Len(tried) = 1
  /\ pc = "el_type" => Len(tried) = 2
  /\ pc = "page_eval" => Len(tried) = 3
  /\ pc = "frame_eval" => Len(tried) = 3 + fi

C9_Witness ==
  /\ Len(tried) = 6
  /\ tried[1].outcome = "raise"
  /\ tried[2].outcome = "raise"
  /\ tried[6].outcome = "ok"
  /\ pc = "loop"

\* C10: every request ends in one of the documented responses.
DocumentedResponses ==
  {<<400, "url and details are mandatory">>,
   <<500, "Failed to navigate to URL">>,
   <<500, "LLM request failed">>,
   <<500, "Could not parse LLM JSON output">>,
   <<500, "LLM did not return JSON">>,
   <<200, "filled">>}

C10_DocumentedResponse ==
  pc = "done" => <<response.code, response.text>> \in DocumentedResponses

============================================================================
